---- MODULE Spec2Model ----
(***************************************************************************)
(* Model of src/src/index.ts: the session transport registry (the          *)
(* `transports` object, GET /sse, POST /messages), the shutdown sequence   *)
(* with its process-level handlers, and the resource and tool handlers     *)
(* registered on the MCP server.                                           *)
(*                                                                         *)
(* Spec        - registry and lifecycle (many connections, one process).   *)
(* FairSpec    - Spec plus the fairness of the shutdown continuation.      *)
(* HandlerSpec - one capability request run through its handler.           *)
(***************************************************************************)
EXTENDS Integers, Sequences, FiniteSets, TLC

\* ------------------------------------------------------------------ bounds
\* Number of event streams opened in one run.
MaxSessions == 2
\* Number of requests submitted to POST /messages in one run.
MaxPosts == 2

VARIABLES
  \* ---- registry and lifecycle (index.ts 296-372)
  transports,    \* the `transports` object: own keys (session ids) -> transport
  uuidCount,     \* how many session ids the SDK has generated so far
  sseResponse,   \* per transport: "open" while its stream can be written, else "ended"
  closeListener, \* transports whose res 'close' listener has not fired yet
  phase,         \* "running" | "shutdown" (inside shutdown(), before finally) | "exited"
  exitCode,      \* the exitCode argument of the running shutdown() call
  exitStatus,    \* the status handed to process.exit
  trigger,       \* what called shutdown(): "signal" (SIGTERM, SIGINT) or "fatal"
                 \* (uncaughtException, unhandledRejection)
  closeCalled,   \* transports on which shutdown() called close()
  closeThrew,    \* those whose close() threw
  shutdownLog,   \* what shutdown() logged after awaiting the closes
  posts,         \* requests in the order they entered the POST /messages handler
  received,      \* per transport: the requests handed to handlePostMessage, in call order
  inflight,      \* requests whose `await transport.handlePostMessage` has not returned
  liveStreams,   \* history: session ids whose event stream is open
  snapshot,      \* history: the registry's own keys when shutdown() was called
  \* ---- one capability request (index.ts 62-294)
  req,           \* the request: capability name and argument bag
  hpc,           \* position of the handler
  shellLog,      \* commands handed to execAsync, in order
  apiLog,        \* calls made on the octokit client, in order
  result         \* what the handler returned or threw

sessionVars == <<transports, uuidCount, sseResponse, closeListener, phase, exitCode,
                 exitStatus, trigger, closeCalled, closeThrew, shutdownLog, posts,
                 received, inflight, liveStreams, snapshot>>
handlerVars == <<req, hpc, shellLog, apiLog, result>>
vars == <<sessionVars, handlerVars>>

\* ------------------------------------------------------------- session ids
\* SSEServerTransport generates its sessionId with randomUUID(); the n-th one.
Uuid(n) == "uuid-" \o ToString(n)

\* Names every plain JavaScript object inherits from Object.prototype.
ObjectPrototypeKeys == {"constructor"}

\* What a client can put in the sessionId query parameter: an id the server
\* issued, an id it never issued (Uuid(0)), or any other string.
QueryIds == {Uuid(n) : n \in 0..MaxSessions} \cup ObjectPrototypeKeys

Range(f) == {f[k] : k \in DOMAIN f}

\* transports[sessionId] on the object literal {} of line 297: an own key
\* gives its transport, an inherited name gives the inherited value, anything
\* else gives undefined.
Lookup(tr, sessionId) ==
  IF sessionId \in DOMAIN tr
    THEN [kind |-> "transport", id |-> tr[sessionId]]
    ELSE IF sessionId \in ObjectPrototypeKeys
      THEN [kind |-> "inherited", id |-> 0]
      ELSE [kind |-> "undefined", id |-> 0]

\* delete transports[sessionId]
Delete(tr, sessionId) == [k \in DOMAIN tr \ {sessionId} |-> tr[k]]

\* The registry as constructed on line 297: no own keys.
EmptyRegistry == [k \in {} |-> 0]

Idle == [kind |-> "none"]

SessionInit ==
  /\ transports = EmptyRegistry
  /\ uuidCount = 0
  /\ sseResponse = [t \in {} |-> "open"]
  /\ closeListener = {}
  /\ phase = "running"
  /\ exitCode = 0
  /\ exitStatus = 0
  /\ trigger = "none"
  /\ closeCalled = {}
  /\ closeThrew = {}
  /\ shutdownLog = "none"
  /\ posts = <<>>
  /\ received = [t \in {} |-> <<>>]
  /\ inflight = {}
  /\ liveStreams = {}
  /\ snapshot = {}

HandlerIdle ==
  /\ req = Idle
  /\ hpc = "idle"
  /\ shellLog = <<>>
  /\ apiLog = <<>>
  /\ result = Idle

Init == SessionInit /\ HandlerIdle

\* --------------------------------------------------------------- GET /sse
\* app.get('/sse'): a new transport is stored under its own session id, a
\* 'close' listener is registered on the response, and server.connect starts
\* the stream.
SseOpen ==
  /\ phase = "running"
  /\ uuidCount < MaxSessions
  /\ LET t == uuidCount + 1 IN
       /\ uuidCount' = t
       /\ transports' = (Uuid(t) :> t) @@ transports
       /\ closeListener' = closeListener \cup {t}
       /\ sseResponse' = (t :> "open") @@ sseResponse
       /\ received' = (t :> <<>>) @@ received
       /\ liveStreams' = liveStreams \cup {Uuid(t)}
  /\ UNCHANGED <<phase, exitCode, exitStatus, trigger, closeCalled, closeThrew,
                 shutdownLog, posts, inflight, snapshot>>
  /\ UNCHANGED handlerVars

\* What the 'close' listener leaves of the registry.
DeleteEverySession(tr, sessionId) == EmptyRegistry
OnClose(tr, sessionId) == Delete(tr, sessionId)

\* res.on('close'): the stream of transport t is gone (the client went away,
\* or the response ended by close() has finished); the listener deletes the
\* transport's own entry.  While shutdown() is between its closes and its
\* finally block only the streams it has ended can report 'close'.
ResClose(t) ==
  /\ t \in closeListener
  /\ \/ phase = "running"
     \/ phase = "shutdown" /\ sseResponse[t] = "ended"
  /\ transports' = OnClose(transports, Uuid(t))
  /\ closeListener' = closeListener \ {t}
  /\ sseResponse' = [sseResponse EXCEPT ![t] = "ended"]
  /\ liveStreams' = liveStreams \ {Uuid(t)}
  /\ UNCHANGED <<uuidCount, phase, exitCode, exitStatus, trigger, closeCalled,
                 closeThrew, shutdownLog, posts, received, inflight, snapshot>>
  /\ UNCHANGED handlerVars

\* ---------------------------------------------------------------- shutdown
\* Object.values(transports): the transports shutdown() calls close() on.
OnlyFirstTransport(tr) == IF Range(tr) = {} THEN {} ELSE {CHOOSE t \in Range(tr) : TRUE}
CloseTargets(tr) == Range(tr)

\* shutdown(exitCode) up to its await: close() is called on every transport
\* of the registry, each inside its own promise executor, so a close() that
\* throws rejects that promise and the others are still called.  A close()
\* that returns has ended that transport's response.
ShutdownCalled(code, by) ==
  \E threw \in SUBSET CloseTargets(transports) :
    /\ phase' = "shutdown"
    /\ exitCode' = code
    /\ trigger' = by
    /\ snapshot' = DOMAIN transports
    /\ closeCalled' = CloseTargets(transports)
    /\ closeThrew' = threw
    /\ sseResponse' = [t \in DOMAIN sseResponse |->
                         IF t \in CloseTargets(transports) \ threw
                           THEN "ended" ELSE sseResponse[t]]
    /\ liveStreams' = {s \in liveStreams :
                         ~(\E t \in CloseTargets(transports) \ threw : s = Uuid(t))}
    /\ UNCHANGED <<transports, uuidCount, closeListener, exitStatus, shutdownLog,
                   received, inflight>>

\* process.on('SIGTERM') and process.on('SIGINT')
Sigterm ==
  /\ phase = "running"
  /\ ShutdownCalled(0, "signal")
  /\ UNCHANGED posts
  /\ UNCHANGED handlerVars

Sigint ==
  /\ phase = "running"
  /\ ShutdownCalled(0, "signal")
  /\ UNCHANGED posts
  /\ UNCHANGED handlerVars

\* process.on('uncaughtException') and process.on('unhandledRejection')
UncaughtException ==
  /\ phase = "running"
  /\ ShutdownCalled(1, "fatal")
  /\ UNCHANGED posts
  /\ UNCHANGED handlerVars

UnhandledRejection ==
  /\ phase = "running"
  /\ ShutdownCalled(1, "fatal")
  /\ UNCHANGED posts
  /\ UNCHANGED handlerVars

\* The status the finally block hands to process.exit.
StatusFromCloseFailure(code, threw) == IF threw = {} THEN code ELSE 1
ExitStatusOf(code, threw) == code

\* shutdown() after its await: the catch block logs a rejected close, and the
\* finally block exits in either case.
ShutdownFinally ==
  /\ phase = "shutdown"
  /\ shutdownLog' = IF closeThrew = {} THEN "All transports closed successfully"
                                       ELSE "Error during shutdown"
  /\ exitStatus' = ExitStatusOf(exitCode, closeThrew)
  /\ phase' = "exited"
  /\ UNCHANGED <<transports, uuidCount, sseResponse, closeListener, exitCode, trigger,
                 closeCalled, closeThrew, posts, received, inflight, liveStreams,
                 snapshot>>
  /\ UNCHANGED handlerVars

\* -------------------------------------------------------- POST /messages
\* transport.handlePostMessage(req, res) on line 319: the call is made before
\* the handler first awaits, so the transport is handed the request at once.
HandLatestFirst(rcv, t, m) == [rcv EXCEPT ![t] = <<m>> \o @]
HandlePostMessage(rcv, t, m) == [rcv EXCEPT ![t] = Append(@, m)]

PostRecord(sessionId, outcome, t) ==
  [sessionId |-> sessionId,
   entry     |-> sessionId \in DOMAIN transports,
   afterClose |-> Cardinality(DOMAIN transports) < uuidCount,
   live      |-> sessionId \in liveStreams,
   outcome   |-> outcome,
   target    |-> t]

\* app.post('/messages') for a request carrying `sessionId`.
\*  - the lookup finds a transport: the request is handed to it, and the
\*    handler awaits;
\*  - the lookup finds undefined: 400 'No transport found for sessionId';
\*  - the lookup finds a value inherited from Object.prototype, which is
\*    truthy and has no handlePostMessage: the call throws a TypeError inside
\*    the async handler.  A router that forwards a rejected handler to the
\*    error middleware (line 326) answers 500; one that does not leaves the
\*    rejection unhandled, and process.on('unhandledRejection') runs
\*    shutdown(1).
PostMessages(sessionId) ==
  /\ phase = "running"
  /\ Len(posts) < MaxPosts
  /\ LET transport == Lookup(transports, sessionId)
         m == Len(posts) + 1
     IN  \/ /\ transport.kind = "transport"
            /\ received' = HandlePostMessage(received, transport.id, m)
            /\ inflight' = inflight \cup {m}
            /\ posts' = Append(posts, PostRecord(sessionId, "dispatched", transport.id))
            /\ UNCHANGED <<transports, uuidCount, sseResponse, closeListener, phase,
                           exitCode, exitStatus, trigger, closeCalled, closeThrew,
                           shutdownLog, liveStreams, snapshot>>
         \/ /\ transport.kind = "undefined"
            /\ posts' = Append(posts, PostRecord(sessionId, "400", 0))
            /\ UNCHANGED <<transports, uuidCount, sseResponse, closeListener, phase,
                           exitCode, exitStatus, trigger, closeCalled, closeThrew,
                           shutdownLog, received, inflight, liveStreams, snapshot>>
         \/ /\ transport.kind = "inherited"
            /\ posts' = Append(posts, PostRecord(sessionId, "500", 0))
            /\ UNCHANGED <<transports, uuidCount, sseResponse, closeListener, phase,
                           exitCode, exitStatus, trigger, closeCalled, closeThrew,
                           shutdownLog, received, inflight, liveStreams, snapshot>>
         \/ /\ transport.kind = "inherited"
            /\ posts' = Append(posts, PostRecord(sessionId, "unhandledRejection", 0))
            /\ ShutdownCalled(1, "fatal")
  /\ UNCHANGED handlerVars

\* The await on line 319 returns for request m: handlePostMessage has
\* answered it.  Requests in flight return in any order.
PostMessageReturns(m) ==
  /\ phase = "running"
  /\ m \in inflight
  /\ inflight' = inflight \ {m}
  /\ UNCHANGED <<transports, uuidCount, sseResponse, closeListener, phase, exitCode,
                 exitStatus, trigger, closeCalled, closeThrew, shutdownLog, posts,
                 received, liveStreams, snapshot>>
  /\ UNCHANGED handlerVars

Next ==
  \/ SseOpen
  \/ \E t \in 1..MaxSessions : ResClose(t)
  \/ \E sessionId \in QueryIds : PostMessages(sessionId)
  \/ \E m \in 1..MaxPosts : PostMessageReturns(m)
  \/ Sigterm
  \/ Sigint
  \/ UncaughtException
  \/ UnhandledRejection
  \/ ShutdownFinally

Spec == Init /\ [][Next]_vars

\* The continuation of shutdown() after `await Promise.all(...)` is a queued
\* microtask: once shutdown() has been called it runs.
FairSpec == Spec /\ WF_vars(ShutdownFinally)

\* ------------------------------------------------------------------------
\* Properties of the registry and the lifecycle
\* ------------------------------------------------------------------------
Dispatched(m) == \E t \in DOMAIN received : \E k \in 1..Len(received[t]) : received[t][k] = m

\* C1: every request whose session id has no entry in the registry (never
\* allocated, or its stream already closed) is answered with the 400 client
\* error, and is not handed to any transport.
C1_UnknownSessionRejected ==
  \A m \in 1..Len(posts) :
    ~posts[m].entry
      => posts[m].outcome = "400" /\ ~Dispatched(m)

\* C2: every open event stream has its own session id and its own registry
\* entry, closing one stream removes only that stream's entry, and a request
\* routed to a session whose stream is open is handed to that session's
\* transport.
C2_OpenSessionStillRouted ==
  /\ \A s \in liveStreams : s \in DOMAIN transports /\ Uuid(transports[s]) = s
  /\ \A s1, s2 \in DOMAIN transports : transports[s1] = transports[s2] => s1 = s2
  /\ \A m \in 1..Len(posts) :
       posts[m].live =>
         /\ posts[m].outcome = "dispatched"
         /\ Uuid(posts[m].target) = posts[m].sessionId
         /\ \E k \in 1..Len(received[posts[m].target]) : received[posts[m].target][k] = m

\* A stream had closed, and a later request for a session whose stream was
\* still open was dispatched.
C2_Witness ==
  \E m \in 1..Len(posts) :
    /\ posts[m].afterClose
    /\ posts[m].live
    /\ posts[m].outcome = "dispatched"

\* C3: when the process has exited, close() was called on the transport of
\* every session that was in the registry when shutdown began, every close()
\* that returned has ended its stream, and the exit status is 0 after
\* SIGTERM or SIGINT and 1 after an uncaught exception or unhandled rejection.
C3_CloseAllThenExit ==
  /\ phase = "running" => closeCalled = {}
  /\ phase = "exited" =>
       /\ \A s \in snapshot : \E t \in closeCalled : Uuid(t) = s
       /\ \A t \in closeCalled \ closeThrew : sseResponse[t] = "ended"
       /\ trigger = "signal" => exitStatus = 0
       /\ trigger = "fatal" => exitStatus = 1

C3_Witness ==
  /\ phase = "exited"
  /\ Cardinality(snapshot) = 2
  /\ closeThrew = {}
  /\ trigger = "signal"
  /\ exitStatus = 0

\* C4: the registry starts empty, and when the process exits after shutdown
\* the registry holds no session entry.
C4_DrainedAtExit ==
  /\ uuidCount = 0 => DOMAIN transports = {}
  /\ phase = "exited" => DOMAIN transports = {}

\* The requests dispatched to transport t, in the order they arrived.
ArrivalsFor(t) ==
  LET Routed(m) == posts[m].outcome = "dispatched" /\ posts[m].target = t
  IN  SelectSeq([m \in 1..Len(posts) |-> m], Routed)

C10_ShutdownExits ==
  /\ (phase = "shutdown") ~> (phase = "exited")
  /\ [](phase = "exited" =>
          /\ exitStatus = exitCode
          /\ trigger = "signal" => exitStatus = 0
          /\ closeThrew # {} => shutdownLog = "Error during shutdown")

C10_Witness ==
  /\ phase = "exited"
  /\ closeThrew # {}
  /\ trigger = "signal"
  /\ exitStatus = 0

\* ------------------------------------------------------------------------
\* Resource and tool handlers (index.ts 39-294)
\* ------------------------------------------------------------------------
\* Number of entries in the `files` argument of commit-changes.
MaxFiles == 2

\* per_page of repos.listCommits
PerPage == 10

\* An argument that may be absent: {} is undefined, {v} is the value v.
Opt(S) == {{}} \cup {{v} : v \in S}
Val(a) == CHOOSE v \in a : TRUE
\* !x for a string argument and for a number argument
Falsy(a) == a = {} \/ a = {""}
FalsyNumber(a) == a = {} \/ a = {0}

\* A file name is a sequence of characters; it may hold a space.
FileNames == {<<"a">>, <<"b">>, <<"a", " ", "b">>}
FileLists == UNION {[1..n -> FileNames] : n \in 0..MaxFiles}

Names == {"", "octo"}

Requests ==
  [capability : {"github-commits"},
   args : [owner : Opt(Names), repo : Opt(Names), branch : Opt({"main"})]]
  \cup
  [capability : {"github-pulls"},
   args : [owner : Opt(Names), repo : Opt(Names)]]
  \cup
  [capability : {"generate-commit-message"},
   args : [changes : Opt({"", "foo"}), context : Opt({"", "bar"}),
           repoPath : Opt({"", "/repo"})]]
  \cup
  [capability : {"merge-pull-request"},
   args : [owner : Opt(Names), repo : Opt(Names), pullNumber : Opt({0, 7}),
           mergeMethod : Opt({"squash"}), commitMessage : {{}}]]
  \cup
  [capability : {"create-pull-request"},
   args : [owner : Opt(Names), repo : Opt(Names), title : Opt({"t"}),
           head : Opt({"dev"}), base : Opt({"main"}), body : {{}}]]
  \cup
  [capability : {"commit-changes"},
   args : [repoPath : Opt({"", "/repo"}), message : Opt({"", "msg"}),
           files : Opt(FileLists)]]

\* What the remote API answers: 200 with data, a RequestError carrying a
\* status, or (0) a failure that carries no status.
RemoteStatus == {200, 404, 403, 500, 0}

\* Messages of the Errors thrown by the handlers.
RequiredOwnerRepo == "Owner and repository parameters are required"
NotFound(owner, repo) == "Repository " \o owner \o "/" \o repo \o " not found"
AccessDenied == "Access denied. Please check your GitHub token permissions"
FailedCommits == "Failed to fetch commits. Please try again later."
FailedPulls == "Failed to fetch pull requests"
RequiredChanges == "Changes parameter is required or repo path must be provided"
FailedGenerate == "Failed to generate commit message. Please try again."
FailedMerge == "Failed to merge pull request"
FailedCreate == "Failed to create pull request"
FailedCommit == "Failed to commit changes"

Thrown(message) == [ok |-> FALSE, error |-> message, body |-> <<>>]
Returned(body) == [ok |-> TRUE, error |-> "", body |-> body]

HandlerInit ==
  /\ SessionInit
  /\ req \in Requests
  /\ hpc = "start"
  /\ shellLog = <<>>
  /\ apiLog = <<>>
  /\ result = Idle

Call(api, params, status) == [api |-> api, params |-> params, status |-> status]

\* if (!owner || !repo) of both resources
OwnerAndRepo(a) == ~Falsy(a.owner) /\ ~Falsy(a.repo)

\* The catch block of the github-commits resource (lines 89-100).
CommitsError(a, status) ==
  IF status = 404 THEN NotFound(Val(a.owner), Val(a.repo))
  ELSE IF status = 403 THEN AccessDenied
  ELSE FailedCommits

\* server.resource("github-commits")
ReadCommits ==
  /\ hpc = "start"
  /\ req.capability = "github-commits"
  /\ LET a == req.args IN
       IF ~OwnerAndRepo(a)
         THEN /\ result' = Thrown(RequiredOwnerRepo)
              /\ apiLog' = apiLog
         ELSE \E status \in RemoteStatus, n \in {0, 1, PerPage} :
                /\ apiLog' = Append(apiLog,
                     Call("repos.listCommits",
                          [owner |-> a.owner, repo |-> a.repo, sha |-> a.branch,
                           per_page |-> PerPage], status))
                /\ result' = IF status = 200
                               THEN Returned([contents |-> n])
                               ELSE Thrown(CommitsError(a, status))
  /\ hpc' = "done"
  /\ UNCHANGED <<req, shellLog>>
  /\ UNCHANGED sessionVars

\* server.resource("github-pulls")
ReadPulls ==
  /\ hpc = "start"
  /\ req.capability = "github-pulls"
  /\ LET a == req.args IN
       IF ~OwnerAndRepo(a)
         THEN /\ result' = Thrown(RequiredOwnerRepo)
              /\ apiLog' = apiLog
         ELSE \E status \in RemoteStatus, n \in {0, 1} :
                /\ apiLog' = Append(apiLog,
                     Call("pulls.list",
                          [owner |-> a.owner, repo |-> a.repo, state |-> "open",
                           sort |-> "updated", direction |-> "desc"], status))
                /\ result' = IF status = 200
                               THEN Returned([contents |-> n])
                               ELSE Thrown(FailedPulls)
  /\ hpc' = "done"
  /\ UNCHANGED <<req, shellLog>>
  /\ UNCHANGED sessionVars

\* One execAsync call: the command line (its characters, blanks included),
\* its working directory, its outcome.
Exec(cwd, line, ok) == [cwd |-> cwd, line |-> line, ok |-> ok]

\* The text the generate-commit-message tool returns (line 165).
PromptText(changes, context) ==
  <<"Please generate a clear and descriptive commit message for the following changes:\n\n">>
    \o changes \o <<"\n\n">>
    \o (IF Falsy(context) THEN <<>> ELSE <<"Additional context:\n", Val(context)>>)

\* server.tool("generate-commit-message"), with getGitStatus (lines 40-49)
\* when the changes come from the repository.  Every throw inside the try
\* block, the one of line 159 included, reaches the catch of line 168.
GenerateCommitMessage ==
  /\ hpc = "start"
  /\ req.capability = "generate-commit-message"
  /\ LET a == req.args IN
       IF Falsy(a.changes) /\ ~Falsy(a.repoPath)
         THEN \E statusOk, diffOk \in BOOLEAN :
                /\ shellLog' =
                     IF statusOk
                       THEN <<Exec(Val(a.repoPath), <<"git", " ", "status", " ", "--porcelain">>, TRUE),
                              Exec(Val(a.repoPath), <<"git", " ", "diff">>, diffOk)>>
                       ELSE <<Exec(Val(a.repoPath), <<"git", " ", "status", " ", "--porcelain">>, FALSE)>>
                /\ result' =
                     IF statusOk /\ diffOk
                       THEN Returned(PromptText(
                              <<"Git Status:\n", "M a.txt\n", "\n\nDiff:\n", "+line\n">>,
                              a.context))
                       ELSE Thrown(FailedGenerate)
         ELSE /\ shellLog' = shellLog
              /\ result' = IF Falsy(a.changes)
                             THEN Thrown(FailedGenerate)
                             ELSE Returned(PromptText(<<Val(a.changes)>>, a.context))
  /\ hpc' = "done"
  /\ UNCHANGED <<req, apiLog>>
  /\ UNCHANGED sessionVars

\* if (!params.owner || !params.repo || !params.pullNumber)
MergeWithoutNumberCheck(a) == ~Falsy(a.owner) /\ ~Falsy(a.repo)
MergeArgsGiven(a) == ~Falsy(a.owner) /\ ~Falsy(a.repo) /\ ~FalsyNumber(a.pullNumber)

\* server.tool("merge-pull-request")
MergePullRequest ==
  /\ hpc = "start"
  /\ req.capability = "merge-pull-request"
  /\ LET a == req.args IN
       IF ~MergeArgsGiven(a)
         THEN /\ result' = Thrown(FailedMerge)
              /\ apiLog' = apiLog
         ELSE \E status \in RemoteStatus :
                /\ apiLog' = Append(apiLog,
                     Call("pulls.merge",
                          [owner |-> a.owner, repo |-> a.repo,
                           pull_number |-> a.pullNumber,
                           merge_method |-> IF Falsy(a.mergeMethod) THEN "merge"
                                                                   ELSE Val(a.mergeMethod),
                           commit_message |-> a.commitMessage], status))
                /\ result' = IF status = 200
                               THEN Returned([sha |-> "abc123", message |-> "merged"])
                               ELSE Thrown(FailedMerge)
  /\ hpc' = "done"
  /\ UNCHANGED <<req, shellLog>>
  /\ UNCHANGED sessionVars

\* if (!params.owner || !params.repo || !params.title || !params.head || !params.base)
CreateArgsGiven(a) ==
  ~Falsy(a.owner) /\ ~Falsy(a.repo) /\ ~Falsy(a.title) /\ ~Falsy(a.head) /\ ~Falsy(a.base)

\* server.tool("create-pull-request")
CreatePullRequest ==
  /\ hpc = "start"
  /\ req.capability = "create-pull-request"
  /\ LET a == req.args IN
       IF ~CreateArgsGiven(a)
         THEN /\ result' = Thrown(FailedCreate)
              /\ apiLog' = apiLog
         ELSE \E status \in RemoteStatus :
                /\ apiLog' = Append(apiLog,
                     Call("pulls.create",
                          [owner |-> a.owner, repo |-> a.repo, title |-> a.title,
                           body |-> a.body, head |-> a.head, base |-> a.base], status))
                /\ result' = IF status = 200
                               THEN Returned([number |-> 7, html_url |-> "url"])
                               ELSE Thrown(FailedCreate)
  /\ hpc' = "done"
  /\ UNCHANGED <<req, shellLog>>
  /\ UNCHANGED sessionVars

\* files.join(' ')
RECURSIVE Join(_)
Join(files) ==
  IF Len(files) = 0 THEN <<>>
  ELSE IF Len(files) = 1 THEN files[1]
  ELSE files[1] \o <<" ">> \o Join(Tail(files))

\* The words the shell makes of a command line: it splits at blanks, and
\* a run of blanks separates once.
RECURSIVE ShellWords(_)
ShellWords(line) ==
  IF line = <<>> THEN <<>>
  ELSE IF Head(line) = " " THEN ShellWords(Tail(line))
  ELSE LET rest == ShellWords(Tail(line)) IN
         IF Len(line) > 1 /\ line[2] # " "
           THEN <<(<<Head(line)>> \o Head(rest))>> \o Tail(rest)
           ELSE <<(<<Head(line)>>)>> \o rest

\* if (!params.repoPath || !params.message)
CommitArgsGiven(a) == ~Falsy(a.repoPath) /\ ~Falsy(a.message)

\* The staging command of lines 272-276.
AddLine(files) ==
  IF files # {} /\ Len(Val(files)) > 0
    THEN <<"git", " ", "add", " ">> \o Join(Val(files))
    ELSE <<"git", " ", "add", " ", ".">>

\* server.tool("commit-changes") up to the end of its first execAsync: the
\* argument check, then `git add`.
CommitChangesStage ==
  /\ hpc = "start"
  /\ req.capability = "commit-changes"
  /\ LET a == req.args IN
       IF ~CommitArgsGiven(a)
         THEN /\ result' = Thrown(FailedCommit)
              /\ shellLog' = shellLog
              /\ hpc' = "done"
         ELSE \E ok \in BOOLEAN :
                /\ shellLog' = Append(shellLog, Exec(Val(a.repoPath), AddLine(a.files), ok))
                /\ result' = IF ok THEN result ELSE Thrown(FailedCommit)
                /\ hpc' = IF ok THEN "staged" ELSE "done"
  /\ UNCHANGED <<req, apiLog>>
  /\ UNCHANGED sessionVars

\* `git commit -m "<message>"` (line 279)
CommitChangesCommit ==
  /\ hpc = "staged"
  /\ \E ok \in BOOLEAN :
       /\ shellLog' = Append(shellLog,
            Exec(Val(req.args.repoPath),
                 <<"git", " ", "commit", " ", "-m", " ", Val(req.args.message)>>, ok))
       /\ result' = IF ok THEN result ELSE Thrown(FailedCommit)
       /\ hpc' = IF ok THEN "committed" ELSE "done"
  /\ UNCHANGED <<req, apiLog>>
  /\ UNCHANGED sessionVars

\* `git rev-parse HEAD` (line 281) and the returned text
CommitChangesRevParse ==
  /\ hpc = "committed"
  /\ \E ok \in BOOLEAN :
       /\ shellLog' = Append(shellLog,
            Exec(Val(req.args.repoPath), <<"git", " ", "rev-parse", " ", "HEAD">>, ok))
       /\ result' = IF ok THEN Returned([commitHash |-> "abc123"])
                          ELSE Thrown(FailedCommit)
  /\ hpc' = "done"
  /\ UNCHANGED <<req, apiLog>>
  /\ UNCHANGED sessionVars

HandlerNext ==
  \/ ReadCommits
  \/ ReadPulls
  \/ GenerateCommitMessage
  \/ MergePullRequest
  \/ CreatePullRequest
  \/ CommitChangesStage
  \/ CommitChangesCommit
  \/ CommitChangesRevParse

HandlerSpec == HandlerInit /\ [][HandlerNext]_vars

\* ------------------------------------------------------------------------
\* Properties of the handlers
\* ------------------------------------------------------------------------
\* The shell steps run in the order add, commit, rev-parse, each only after
\* the one before it succeeded, and a failed step ends the operation with a
\* failure that carries no hash.
CommitStepsInOrder ==
  req.capability = "commit-changes" =>
    /\ Len(shellLog) <= 3
    /\ \A k \in 1..Len(shellLog) :
         /\ ShellWords(shellLog[k].line)[2] = <<<<"add">>, <<"commit">>, <<"rev-parse">>>>[k]
         /\ k < Len(shellLog) => shellLog[k].ok
    /\ hpc = "done" =>
         /\ result.ok <=> (Len(shellLog) = 3 /\ \A k \in 1..3 : shellLog[k].ok)
         /\ ~result.ok => result.body = <<>>

\* The path arguments of the staging command are the given files, or "."
\* when no file is given.
StagingNamesFiles ==
  (req.capability = "commit-changes" /\ Len(shellLog) >= 1) =>
    LET named == Tail(Tail(ShellWords(shellLog[1].line)))
        files == req.args.files
    IN  IF files # {} /\ Len(Val(files)) > 0
          THEN named = Val(files)
          ELSE named = <<<<".">>>>

\* C5: commit-changes runs stage, commit, resolve-hash strictly in that
\* order, each after the previous one succeeded; a failing step stops the
\* rest and gives one failure without a hash; the staging step names exactly
\* the given files, or everything when none is given.
C5_CommitChanges == CommitStepsInOrder /\ StagingNamesFiles

\* C6: for every source-host operation a remote 404 becomes the not-found
\* failure naming owner/repo, a remote 403 the permission failure, any other
\* remote failure the operation's generic failure, and a failure carries no
\* partial result.
C6_RemoteErrorMapping ==
  (hpc = "done" /\ apiLog # <<>>) =>
    LET call == apiLog[1]
        notFound == NotFound(Val(call.params.owner), Val(call.params.repo))
    IN  /\ Len(apiLog) = 1
        /\ call.status # 200 => ~result.ok /\ result.body = <<>>
        /\ call.status = 404 => result.error = notFound
        /\ call.status = 403 => result.error = AccessDenied
        /\ call.status \notin {200, 404, 403} => result.error \notin {notFound, AccessDenied}

\* C7: generate-commit-message with neither changes nor repoPath fails with
\* the validation error (not the failure an unsuccessful shell command gives)
\* and runs no shell command; with changes absent and repoPath present it
\* runs status and diff; a success is the prompt template with the changes,
\* and with the 'Additional context' section exactly when context is given.
C7_GenerateCommitMessage ==
  (hpc = "done" /\ req.capability = "generate-commit-message") =>
    LET a == req.args IN
      /\ (Falsy(a.changes) /\ Falsy(a.repoPath)) =>
           /\ ~result.ok
           /\ result.error = RequiredChanges
           /\ shellLog = <<>>
      /\ (Falsy(a.changes) /\ ~Falsy(a.repoPath)) =>
           /\ Len(shellLog) >= 1
           /\ ShellWords(shellLog[1].line)[2] = <<"status">>
           /\ Len(shellLog) = 2 => ShellWords(shellLog[2].line)[2] = <<"diff">>
      /\ result.ok =>
           /\ ~Falsy(a.changes) => \E k \in 1..Len(result.body) : result.body[k] = Val(a.changes)
           /\ (\E k \in 1..Len(result.body) : result.body[k] = "Additional context:\n")
                <=> ~Falsy(a.context)

\* A required argument is missing: absent, or an empty string.
MissingRequired ==
  LET a == req.args IN
    CASE req.capability \in {"github-commits", "github-pulls"} ->
           Falsy(a.owner) \/ Falsy(a.repo)
      [] req.capability = "merge-pull-request" ->
           Falsy(a.owner) \/ Falsy(a.repo) \/ a.pullNumber = {}
      [] req.capability = "create-pull-request" ->
           Falsy(a.owner) \/ Falsy(a.repo) \/ Falsy(a.title) \/ Falsy(a.head) \/ Falsy(a.base)
      [] req.capability = "commit-changes" ->
           Falsy(a.repoPath) \/ Falsy(a.message)
      [] OTHER -> FALSE

\* C8: a request missing a required argument is rejected with no remote API
\* call and no shell command.
C8_ValidationBeforeCall ==
  MissingRequired =>
    /\ apiLog = <<>>
    /\ shellLog = <<>>
    /\ hpc = "done" => ~result.ok

\* merge-pull-request without pullNumber has been rejected.
C8_Witness ==
  /\ hpc = "done"
  /\ req.capability = "merge-pull-request"
  /\ ~Falsy(req.args.owner)
  /\ ~Falsy(req.args.repo)
  /\ req.args.pullNumber = {}
  /\ ~result.ok
  /\ apiLog = <<>>

====
